---- MODULE Spec2Model ----
(***************************************************************************)
(* Model of the BLEAdapter native addon of ghost-mesh.                     *)
(*                                                                         *)
(* The repository holds two copies of the adapter: the platform copy       *)
(* (src/native-ble/cpp/platform/macos/ble_adapter.cc, with the registry of *)
(* ble_adapter_registry.cc) and the in-class stub copy                     *)
(* (src/native-ble/cpp/ble_adapter.cc).  A build links one of them; the    *)
(* variable impl says which, and every operation is translated from the    *)
(* copy that impl names.                                                   *)
(*                                                                         *)
(* One step of the model is one call of the host into the addon, run to    *)
(* completion.  last records the call and its outcome, emitted records the *)
(* EmitEvent calls the operation made, in order.                           *)
(***************************************************************************)
EXTENDS Integers, Sequences, FiniteSets, TLC

\* ------------------------------------------------------------------ bounds
NumAdapters == 2
MaxListeners == 2
MaxCallbacks == 2

\* ------------------------------------------------------------- the universe
Objs == 1..NumAdapters            \* the addresses BLEAdapter objects live at
NULL == 0                         \* nullptr / no registry entry
\* Adapters of the in-class copy share nothing (it has no registry): one of
\* them stands for all.
StubObjs == {1}
HostIds == {"x"}                  \* adapterId values a host passes in options
Payloads == {<<1, 2>>, <<3>>}     \* manufacturer data buffers
Handlers == {"h1", "h2"}          \* callback functions of the host
Impls == {"platform", "stub"}

\* std::to_string(reinterpret_cast<uintptr_t>(this))
PtrId(o) == ToString(o)

Ids == HostIds \cup {PtrId(o) : o \in Objs}

\* Napi::Reference<Napi::Value>: <<>> is the empty reference, <<v>> holds v.
EmptyRef == <<>>
Persistent(v) == <<v>>
IsEmpty(ref) == ref = <<>>

\* the event names the addon emits itself, and one it never emits
EventNames == {"stateChange", "advertisingStarted", "advertisingStopped",
               "advertisingDataUpdated", "scanningStarted", "scanningStopped",
               "deviceDiscovered", "custom"}

\* enum class State
States == {"Unknown", "PoweredOn", "PoweredOff"}

VARIABLES impl, exists, adapterId_, state_, advertising_, scanning_,
          manufacturerData_, listeners_, adapters_, last, emitted, again,
          visible, walk

vars == <<impl, exists, adapterId_, state_, advertising_, scanning_,
          manufacturerData_, listeners_, adapters_, last, emitted, again,
          visible, walk>>

fields == <<adapterId_, state_, advertising_, scanning_, manufacturerData_,
            listeners_>>

\* ------------------------------------------------------------ event values
\* The argument of an emitted event.  device objects use address, name and
\* manufacturerData; stateChange uses state; advertisingDataUpdated and the
\* stub's advertisingStarted use manufacturerData.
EventArg(address, name, data, st) ==
  [address |-> address, name |-> name, manufacturerData |-> data, state |-> st]

NoArgs == EventArg("", "", EmptyRef, "")
Device(address, data) == EventArg(address, "", data, "")
StubDevice(data) == EventArg("AA:BB:CC:DD:EE:FF", "TestAdvertiser", data, "")
StateArg(st) == EventArg("", "", EmptyRef, st)
DataArg(data) == EventArg("", "", data, "")


\* The arguments of a call: given says whether info[0] is there (an object for
\* startAdvertising, a value for updateAdvertisingData), data is the
\* manufacturerData it carries (EmptyRef: none), str a string argument.
CallArg(given, data, str) ==
  [given |-> given, data |-> data, str |-> str, handler |-> ""]
NoCallArg == CallArg(FALSE, EmptyRef, "")
\* the arguments of on(event, handler)
OnArg(event, h) == [given |-> TRUE, data |-> EmptyRef, str |-> event, handler |-> h]

Call(op, self, arg, result, ret) ==
  [op |-> op, self |-> self, arg |-> arg, result |-> result, ret |-> ret]

\* ---------------------------------------------------------------- registry
\* the keys of adapters_
Entries == {id \in Ids : adapters_[id] # NULL}

\* BLEAdapter::GetAdapter
GetAdapter(id) == adapters_[id]

\* An iteration over the unordered_map visits every entry once, in an order the
\* container chooses.
Orders(S) == {f \in [1..Cardinality(S) -> S] : \A x \in S : \E i \in DOMAIN f : f[i] = x}

\* the objects the registry refers to
Registered == {adapters_[id] : id \in Entries}

NoListeners == [e \in EventNames |-> <<>>]

\* What a callback finds when it looks at the adapter a call was made on: the
\* flags and the payload.  visible holds what the callbacks of the first event
\* of the last call found (what the call left, when it emitted nothing).
View(adv, scan, data) ==
  [advertising |-> adv, scanning |-> scan, manufacturerData |-> data]
NoView == View(FALSE, FALSE, EmptyRef)

\* A loop "for (auto &entry : adapters_)" that has come to a halt in a callback:
\* began are the adapters the registry held when the loop began, at is the key
\* of the entry the iterator is at ("" when it is at none), todo are the keys
\* the iterator has still to come to, visited the adapters it came to, in
\* order; inCallback says that a callback of the entry's events is running,
\* calls counts the calls the callbacks of this loop have made into the addon.
Walk(active, newState, began, at, todo, visited) ==
  [active |-> active, newState |-> newState, began |-> began, at |-> at,
   todo |-> todo, visited |-> visited, inCallback |-> FALSE, calls |-> 0]
NoWalk == Walk(FALSE, "", {}, "", {}, <<>>)

Init ==
  /\ impl \in Impls
  /\ exists = [o \in Objs |-> FALSE]
  /\ adapterId_ = [o \in Objs |-> ""]
  /\ state_ = [o \in Objs |-> "Unknown"]
  /\ advertising_ = [o \in Objs |-> FALSE]
  /\ scanning_ = [o \in Objs |-> FALSE]
  /\ manufacturerData_ = [o \in Objs |-> EmptyRef]
  /\ listeners_ = [o \in Objs |-> NoListeners]
  /\ adapters_ = [id \in Ids |-> NULL]
  /\ last = Call("init", NULL, NoCallArg, "ok", "")
  /\ emitted = <<>>
  /\ again = FALSE
  /\ visible = NoView
  /\ walk = NoWalk

\* an emit that stops after the first callback of the event
EmitEvent_FirstOnly(to, event, arg) ==
  [to |-> to, event |-> event, arg |-> arg,
   cbs |-> IF listeners_[to][event] = <<>> THEN <<>>
           ELSE <<Head(listeners_[to][event])>>]

\* ------------------------------------------------------------------- emit
\* BLEAdapter::EmitEvent (and Emit, which the in-class copy goes through): one
\* event sent to adapter to.  cbs are the callbacks the loop
\* "for (auto &cb : it->second)" calls with arg: every callback registered for
\* the name, in registration order; none when the name has no listeners.
EmitEvent(to, event, arg) ==
  [to |-> to, event |-> event, arg |-> arg, cbs |-> listeners_[to][event]]

\* ------------------------------------------------------------ bookkeeping
\* again says whether the call just made repeats the call before it: the same
\* operation on the same adapter
Repeats(op, self) == again' = (last.op = op /\ last.self = self)

\* the adapter as a callback finds it before the call has written anything ...
ViewBefore(self) ==
  View(advertising_[self], scanning_[self], manufacturerData_[self])

\* ... and after the call has written all it writes
ViewAfter(self) ==
  View(advertising_'[self], scanning_'[self], manufacturerData_'[self])

\* A call whose callbacks do not call back into the addon: its first event is
\* delivered while the adapter looks as view says, and no loop over the
\* registry is left halted.
Atomic(view) ==
  /\ visible' = view
  /\ walk' = NoWalk

\* a call that throws after it has reset the advertising flag
Throw_Resetting(op, self, arg, err) ==
  /\ last' = Call(op, self, arg, err, "")
  /\ emitted' = <<>>
  /\ Repeats(op, self)
  /\ Atomic(ViewBefore(self))
  /\ advertising_' = [advertising_ EXCEPT ![self] = FALSE]
  /\ UNCHANGED <<impl, exists, adapterId_, state_, scanning_, manufacturerData_,
                 listeners_, adapters_>>

\* a call that throws before it changes anything
Throw(op, self, arg, err) ==
  /\ last' = Call(op, self, arg, err, "")
  /\ emitted' = <<>>
  /\ Repeats(op, self)
  /\ Atomic(ViewBefore(self))
  /\ UNCHANGED <<impl, exists, fields, adapters_>>

\* a call that returns undefined, and that wrote what it writes before it
\* emitted the first of its events
Return(op, self, arg, events) ==
  /\ last' = Call(op, self, arg, "ok", "")
  /\ emitted' = events
  /\ Repeats(op, self)
  /\ Atomic(ViewAfter(self))

\* the tag GetState returns for a State
StateTag(st) ==
  CASE st = "PoweredOn" -> "poweredOn"
    [] st = "PoweredOff" -> "poweredOff"
    [] OTHER -> "unknown"

\* ------------------------------------------------------------- constructor
\* BLEAdapter::BLEAdapter of the platform copy: idArg is the adapterId option
\* ("" when the options hold none), an empty id is replaced by the address.
PlatformAdapterId(self, idArg) == IF idArg = "" THEN PtrId(self) ELSE idArg

\* a constructor that leaves an id to the adapter that has it: first write wins
Constructed_FirstWins(self, idArg) ==
  /\ ~exists[self]
  /\ impl = "stub" => self \in StubObjs
  /\ exists' = [exists EXCEPT ![self] = TRUE]
  /\ state_' = [state_ EXCEPT ![self] = "PoweredOn"]
  /\ advertising_' = [advertising_ EXCEPT ![self] = FALSE]
  /\ scanning_' = [scanning_ EXCEPT ![self] = FALSE]
  /\ manufacturerData_' = [manufacturerData_ EXCEPT ![self] = EmptyRef]
  /\ listeners_' = [listeners_ EXCEPT ![self] = NoListeners]
  /\ IF impl = "platform"
       THEN /\ adapterId_' = [adapterId_ EXCEPT ![self] = PlatformAdapterId(self, idArg)]
            /\ adapters_' = IF adapters_[PlatformAdapterId(self, idArg)] # NULL
                              THEN adapters_
                              ELSE [adapters_ EXCEPT ![PlatformAdapterId(self, idArg)] = self]
       ELSE /\ UNCHANGED <<adapterId_, adapters_>>

\* what the constructor writes
Constructed(self, idArg) ==
  /\ ~exists[self]
  /\ impl = "stub" => self \in StubObjs
  /\ exists' = [exists EXCEPT ![self] = TRUE]
  /\ state_' = [state_ EXCEPT ![self] = "PoweredOn"]
  /\ advertising_' = [advertising_ EXCEPT ![self] = FALSE]
  /\ scanning_' = [scanning_ EXCEPT ![self] = FALSE]
  /\ manufacturerData_' = [manufacturerData_ EXCEPT ![self] = EmptyRef]
  /\ listeners_' = [listeners_ EXCEPT ![self] = NoListeners]
  /\ IF impl = "platform"
       THEN /\ adapterId_' = [adapterId_ EXCEPT ![self] = PlatformAdapterId(self, idArg)]
            /\ adapters_' = [adapters_ EXCEPT ![PlatformAdapterId(self, idArg)] = self]
       ELSE \* the in-class copy has no adapterId_ and no registry
            /\ UNCHANGED <<adapterId_, adapters_>>

Construct(self, idArg) ==
  /\ Constructed(self, idArg)
  /\ UNCHANGED impl
  /\ Return("construct", self, CallArg(idArg # "", EmptyRef, idArg), <<>>)

\* a platform copy that does not refuse a second startAdvertising
PlatformStartAdvertisingCheck_NoActiveCheck(self, arg) ==
  IF ~arg.given THEN "TypeError"
  ELSE IF state_[self] # "PoweredOn" THEN "InvalidState"
  ELSE "ok"

\* --------------------------------------------------------- startAdvertising
\* the checks of the platform copy, in the order the code makes them
PlatformStartAdvertisingCheck(self, arg) ==
  IF ~arg.given THEN "TypeError"
  ELSE IF state_[self] # "PoweredOn" THEN "InvalidState"
  ELSE IF advertising_[self] THEN "AlreadyActive"
  ELSE "ok"

\* the checks of the in-class copy
StubStartAdvertisingCheck(self, arg) ==
  IF state_[self] # "PoweredOn" THEN "InvalidState"
  ELSE IF advertising_[self] THEN "AlreadyActive"
  ELSE "ok"

\* manufacturerData_ after a successful startAdvertising of the platform copy:
\* replaced when the options have manufacturerData, otherwise left as it is
PlatformAdvertisedData(self, arg) ==
  IF ~IsEmpty(arg.data) THEN arg.data ELSE manufacturerData_[self]

\* manufacturerData_ after a successful startAdvertising of the in-class copy:
\* replaced when the options have manufacturerData, otherwise reset
StubAdvertisedData(self, arg) ==
  IF arg.given /\ ~IsEmpty(arg.data) THEN arg.data ELSE EmptyRef

\* a broadcast that does not skip the advertiser itself
IsScanningPeer_NoSelfCheck(self, id) == scanning_[adapters_[id]]

\* the registry entries a broadcast of self notifies: every other adapter that
\* is scanning
IsScanningPeer(self, id) == adapters_[id] # self /\ scanning_[adapters_[id]]

\* a broadcast that notifies every other adapter, scanning or not
ScanningPeers_All(self) == {id \in Entries : adapters_[id] # self}

ScanningPeers(self) == {id \in Entries : IsScanningPeer(self, id)}

\* the loop "for (auto &entry : adapters_)" of StartAdvertising and
\* UpdateAdvertisingData; ord is the order in which the iteration comes to the
\* entries it notifies
NotifyScanners(self, ord, device) ==
  [i \in 1..Len(ord) |-> EmitEvent(adapters_[ord[i]], "deviceDiscovered", device)]

\* a device object that leaves the payload out
AdvertisedDevice_NoData(self, data) == Device(adapterId_[self], EmptyRef)

\* the device object StartAdvertising builds: manufacturerData only when held
AdvertisedDevice(self, data) == Device(adapterId_[self], data)

PlatformStartAdvertising(self, arg) ==
  LET err == PlatformStartAdvertisingCheck(self, arg)
      data == PlatformAdvertisedData(self, arg)
  IN  IF err # "ok" THEN Throw("startAdvertising", self, arg, err)
      ELSE \E ord \in Orders(ScanningPeers(self)) :
             /\ manufacturerData_' = [manufacturerData_ EXCEPT ![self] = data]
             /\ advertising_' = [advertising_ EXCEPT ![self] = TRUE]
             /\ UNCHANGED <<impl, exists, adapterId_, state_, scanning_, listeners_, adapters_>>
             /\ Return("startAdvertising", self, arg,
                       <<EmitEvent(self, "advertisingStarted", NoArgs)>>
                       \o NotifyScanners(self, ord, AdvertisedDevice(self, data)))

StubStartAdvertising(self, arg) ==
  LET err == StubStartAdvertisingCheck(self, arg)
  IN  IF err # "ok" THEN Throw("startAdvertising", self, arg, err)
      ELSE /\ advertising_' = [advertising_ EXCEPT ![self] = TRUE]
           /\ manufacturerData_' = [manufacturerData_ EXCEPT ![self] = StubAdvertisedData(self, arg)]
           /\ UNCHANGED <<impl, exists, adapterId_, state_, scanning_, listeners_, adapters_>>
           /\ Return("startAdvertising", self, arg,
                     <<EmitEvent(self, "advertisingStarted",
                                IF arg.given THEN DataArg(arg.data) ELSE NoArgs)>>)

StartAdvertising(self, arg) ==
  /\ exists[self]
  /\ IF impl = "platform" THEN PlatformStartAdvertising(self, arg)
                          ELSE StubStartAdvertising(self, arg)

\* ---------------------------------------------------- updateAdvertisingData
PlatformUpdateAdvertisingDataCheck(self, arg) ==
  IF ~arg.given THEN "TypeError"
  ELSE IF ~advertising_[self] THEN "InvalidState"
  ELSE "ok"

\* the in-class copy checks nothing
StubUpdateAdvertisingDataCheck(self, arg) == "ok"

PlatformUpdateAdvertisingData(self, arg) ==
  LET err == PlatformUpdateAdvertisingDataCheck(self, arg)
  IN  IF err # "ok" THEN Throw("updateAdvertisingData", self, arg, err)
      ELSE \E ord \in Orders(ScanningPeers(self)) :
             /\ manufacturerData_' = [manufacturerData_ EXCEPT ![self] = arg.data]
             /\ UNCHANGED <<impl, exists, adapterId_, state_, advertising_, scanning_,
                            listeners_, adapters_>>
             /\ Return("updateAdvertisingData", self, arg,
                       <<EmitEvent(self, "advertisingDataUpdated", DataArg(arg.data))>>
                       \o NotifyScanners(self, ord, Device(adapterId_[self], arg.data)))

StubUpdateAdvertisingData(self, arg) ==
  LET err == StubUpdateAdvertisingDataCheck(self, arg)
  IN  IF err # "ok" THEN Throw("updateAdvertisingData", self, arg, err)
      ELSE \* advertisingDataUpdated is emitted first, the buffer stored next
           /\ arg.given
           /\ manufacturerData_' = [manufacturerData_ EXCEPT ![self] = arg.data]
           /\ last' = Call("updateAdvertisingData", self, arg, "ok", "")
           /\ emitted' =
                <<EmitEvent(self, "advertisingDataUpdated", DataArg(arg.data))>>
                \o (IF scanning_[self]
                      THEN <<EmitEvent(self, "deviceDiscovered", StubDevice(arg.data))>>
                      ELSE <<>>)
           /\ Repeats("updateAdvertisingData", self)
           /\ Atomic(ViewBefore(self))
           /\ UNCHANGED <<impl, exists, adapterId_, state_, advertising_, scanning_,
                          listeners_, adapters_>>

UpdateAdvertisingData(self, arg) ==
  /\ exists[self]
  /\ IF impl = "platform" THEN PlatformUpdateAdvertisingData(self, arg)
                          ELSE StubUpdateAdvertisingData(self, arg)

\* ---------------------------------------------------------- stopAdvertising
\* the platform copy checks nothing
PlatformStopAdvertisingCheck(self) == "ok"

StubStopAdvertisingCheck(self) ==
  IF ~advertising_[self] THEN "InvalidState" ELSE "ok"

StopAdvertisingCheck(self) ==
  IF impl = "platform" THEN PlatformStopAdvertisingCheck(self)
                       ELSE StubStopAdvertisingCheck(self)

\* a stopAdvertising that keeps the payload of the session it ends
StopAdvertising_KeepData(self) ==
  /\ exists[self]
  /\ LET err == StopAdvertisingCheck(self)
     IN  IF err # "ok" THEN Throw("stopAdvertising", self, NoCallArg, err)
         ELSE /\ advertising_' = [advertising_ EXCEPT ![self] = FALSE]
              /\ UNCHANGED <<impl, exists, adapterId_, state_, scanning_,
                             manufacturerData_, listeners_, adapters_>>
              /\ Return("stopAdvertising", self, NoCallArg,
                        <<EmitEvent(self, "advertisingStopped", NoArgs)>>)

\* both copies do the same once past their checks
StopAdvertising(self) ==
  /\ exists[self]
  /\ LET err == StopAdvertisingCheck(self)
     IN  IF err # "ok" THEN Throw("stopAdvertising", self, NoCallArg, err)
         ELSE /\ advertising_' = [advertising_ EXCEPT ![self] = FALSE]
              /\ manufacturerData_' = [manufacturerData_ EXCEPT ![self] = EmptyRef]
              /\ UNCHANGED <<impl, exists, adapterId_, state_, scanning_, listeners_, adapters_>>
              /\ Return("stopAdvertising", self, NoCallArg,
                        <<EmitEvent(self, "advertisingStopped", NoArgs)>>)

\* a copy that lets an adapter scan whatever its power state
StartScanningCheck_NoStateCheck(self) ==
  IF scanning_[self] THEN "AlreadyActive" ELSE "ok"

\* a copy that does not refuse a second startScanning
StartScanningCheck_NoActiveCheck(self) ==
  IF state_[self] # "PoweredOn" THEN "InvalidState" ELSE "ok"

\* ------------------------------------------------------------ startScanning
\* the checks, the same in both copies
StartScanningCheck(self) ==
  IF state_[self] # "PoweredOn" THEN "InvalidState"
  ELSE IF scanning_[self] THEN "AlreadyActive"
  ELSE "ok"

\* the registry entries a scan of self discovers: every other adapter that is
\* advertising and holds manufacturer data
IsAdvertisingPeer(self, id) ==
  /\ adapters_[id] # self
  /\ advertising_[adapters_[id]]
  /\ ~IsEmpty(manufacturerData_[adapters_[id]])

AdvertisingPeers(self) == {id \in Entries : IsAdvertisingPeer(self, id)}

\* a scan that reports the scanner's own identity for every peer
DiscoverAdvertisers_OwnAddress(self, ord) ==
  [i \in 1..Len(ord) |->
     EmitEvent(self, "deviceDiscovered",
               Device(adapterId_[self], manufacturerData_[adapters_[ord[i]]]))]

\* the loop "for (auto &entry : adapters_)" of StartScanning; ord is the order
\* in which the iteration comes to the entries it discovers
DiscoverAdvertisers(self, ord) ==
  [i \in 1..Len(ord) |->
     EmitEvent(self, "deviceDiscovered",
               Device(adapterId_[adapters_[ord[i]]],
                      manufacturerData_[adapters_[ord[i]]]))]

\* the simulated discovery of a scan that found nothing
SimulatedId(self) == adapterId_[self] \o "-sim"
SimulatedDevice(self) == Device(SimulatedId(self), EmptyRef)

\* a scan that reports the simulated device whether or not it found a peer
Discoveries_AlwaysSimulated(self, ord) ==
  DiscoverAdvertisers(self, ord)
  \o <<EmitEvent(self, "deviceDiscovered", SimulatedDevice(self))>>

\* "if (!found)"
Discoveries(self, ord) ==
  IF DiscoverAdvertisers(self, ord) = <<>>
    THEN <<EmitEvent(self, "deviceDiscovered", SimulatedDevice(self))>>
    ELSE DiscoverAdvertisers(self, ord)

\* the manufacturer data the in-class copy reports when it holds none
StubDefaultData == Persistent(<<255, 255, 1, 2>>)

StubDiscoveries(self) ==
  <<EmitEvent(self, "deviceDiscovered",
             StubDevice(IF ~IsEmpty(manufacturerData_[self])
                          THEN manufacturerData_[self] ELSE StubDefaultData))>>

StartScanning(self) ==
  /\ exists[self]
  /\ LET err == StartScanningCheck(self)
     IN  IF err # "ok" THEN Throw("startScanning", self, NoCallArg, err)
         ELSE \E ord \in Orders(IF impl = "platform" THEN AdvertisingPeers(self) ELSE {}) :
                /\ scanning_' = [scanning_ EXCEPT ![self] = TRUE]
                /\ UNCHANGED <<impl, exists, adapterId_, state_, advertising_,
                               manufacturerData_, listeners_, adapters_>>
                /\ Return("startScanning", self, NoCallArg,
                          <<EmitEvent(self, "scanningStarted", NoArgs)>>
                          \o (IF impl = "platform" THEN Discoveries(self, ord)
                                                   ELSE StubDiscoveries(self)))

\* ------------------------------------------------------------- stopScanning
\* the platform copy checks nothing
PlatformStopScanningCheck(self) == "ok"

StubStopScanningCheck(self) ==
  IF ~scanning_[self] THEN "InvalidState" ELSE "ok"

StopScanningCheck(self) ==
  IF impl = "platform" THEN PlatformStopScanningCheck(self)
                       ELSE StubStopScanningCheck(self)

\* a stopScanning that ends the advertising as well
StopScanning_StopsAll(self) ==
  /\ exists[self]
  /\ LET err == StopScanningCheck(self)
     IN  IF err # "ok" THEN Throw("stopScanning", self, NoCallArg, err)
         ELSE /\ scanning_' = [scanning_ EXCEPT ![self] = FALSE]
              /\ advertising_' = [advertising_ EXCEPT ![self] = FALSE]
              /\ UNCHANGED <<impl, exists, adapterId_, state_,
                             manufacturerData_, listeners_, adapters_>>
              /\ Return("stopScanning", self, NoCallArg,
                        <<EmitEvent(self, "scanningStopped", NoArgs)>>)

StopScanning(self) ==
  /\ exists[self]
  /\ LET err == StopScanningCheck(self)
     IN  IF err # "ok" THEN Throw("stopScanning", self, NoCallArg, err)
         ELSE /\ scanning_' = [scanning_ EXCEPT ![self] = FALSE]
              /\ UNCHANGED <<impl, exists, adapterId_, state_, advertising_,
                             manufacturerData_, listeners_, adapters_>>
              /\ Return("stopScanning", self, NoCallArg,
                        <<EmitEvent(self, "scanningStopped", NoArgs)>>)

\* ----------------------------------------------------------------- getState
\* the strings getState acts on
Directives == {"", "error", "powerOff", "powerOn"}

\* BLEAdapter::HandlePowerStateChange of the platform copy, for one adapter of
\* the registry: the state it is left in ...
PowerState(newState, old) ==
  IF newState = "poweredOff" THEN "PoweredOff"
  ELSE IF newState = "poweredOn" THEN "PoweredOn"
  ELSE old

\* ... and the events it is sent
PowerEvents(newState, adapter) ==
  (IF newState = "poweredOff"
     THEN <<EmitEvent(adapter, "advertisingStopped", NoArgs),
            EmitEvent(adapter, "scanningStopped", NoArgs)>>
     ELSE <<>>)
  \o <<EmitEvent(adapter, "stateChange", StateArg(newState))>>

\* the loop "for (auto &entry : adapters_)" of HandlePowerStateChange
RECURSIVE PowerBroadcast(_, _)
PowerBroadcast(newState, ord) ==
  IF ord = <<>> THEN <<>>
  ELSE PowerEvents(newState, adapters_[Head(ord)]) \o PowerBroadcast(newState, Tail(ord))

\* what the loop does to the adapters of the registry and the events it sends
PowerStateChange(newState, ord) ==
  /\ state_' = [o \in Objs |->
                  IF o \in Registered THEN PowerState(newState, state_[o]) ELSE state_[o]]
  /\ advertising_' = [o \in Objs |->
                  IF o \in Registered /\ newState = "poweredOff" THEN FALSE ELSE advertising_[o]]
  /\ scanning_' = [o \in Objs |->
                  IF o \in Registered /\ newState = "poweredOff" THEN FALSE ELSE scanning_[o]]
  /\ manufacturerData_' = [o \in Objs |->
                  IF o \in Registered /\ newState = "poweredOff" THEN EmptyRef
                  ELSE manufacturerData_[o]]
  /\ emitted' = PowerBroadcast(newState, ord)

\* HandlePowerStateChange as GetState calls it, followed by the return of GetState
HandlePowerStateChange(newState, self, arg) ==
  \E ord \in Orders(Entries) :
    /\ PowerStateChange(newState, ord)
    /\ last' = Call("getState", self, arg, "ok", StateTag(state_'[self]))
    /\ Repeats("getState", self)
    /\ Atomic(IF ord # <<>> /\ adapters_[ord[1]] # self THEN ViewBefore(self)
                                                       ELSE ViewAfter(self))
    /\ UNCHANGED <<impl, exists, adapterId_, listeners_, adapters_>>

\* the names the header documents for newState
PowerStateNames == {"poweredOff", "poweredOn"}

\* HandlePowerStateChange called on its own: it is a public static of the
\* platform copy, which native code calls with a documented state name
PowerStateChanged(newState) ==
  /\ impl = "platform"
  /\ \E ord \in Orders(Entries) :
       /\ PowerStateChange(newState, ord)
       /\ last' = Call("handlePowerStateChange", NULL,
                       CallArg(TRUE, EmptyRef, newState), "ok", "")
       /\ Repeats("handlePowerStateChange", NULL)
       /\ Atomic(NoView)
       /\ UNCHANGED <<impl, exists, adapterId_, listeners_, adapters_>>

\* getState without a directive
ReadState(self, arg) ==
  /\ last' = Call("getState", self, arg, "ok", StateTag(state_[self]))
  /\ emitted' = <<>>
  /\ Repeats("getState", self)
  /\ Atomic(ViewBefore(self))
  /\ UNCHANGED <<impl, exists, fields, adapters_>>

\* a getState that takes the error sentinel for no directive at all
PlatformGetState_NoSentinel(self, arg) ==
  IF arg.str = "powerOff" \/ arg.str = "powerOn"
    THEN HandlePowerStateChange(arg.str, self, arg)
  ELSE ReadState(self, arg)

PlatformGetState(self, arg) ==
  IF arg.str = "error" THEN Throw("getState", self, arg, "SimulatedError")
  ELSE IF arg.str = "powerOff" \/ arg.str = "powerOn"
    THEN HandlePowerStateChange(arg.str, self, arg)
  ELSE ReadState(self, arg)

\* the powerOff branch of the in-class copy
StubPowerOff(self, arg) ==
  /\ state_' = [state_ EXCEPT ![self] = "PoweredOff"]
  /\ advertising_' = [advertising_ EXCEPT ![self] = FALSE]
  /\ scanning_' = [scanning_ EXCEPT ![self] = FALSE]
  /\ manufacturerData_' = [manufacturerData_ EXCEPT ![self] = EmptyRef]
  /\ last' = Call("getState", self, arg, "ok", "poweredOff")
  /\ emitted' = (IF advertising_[self]
                   THEN <<EmitEvent(self, "advertisingStopped", NoArgs)>> ELSE <<>>)
                \o (IF scanning_[self]
                      THEN <<EmitEvent(self, "scanningStopped", NoArgs)>> ELSE <<>>)
                \o <<EmitEvent(self, "stateChange", StateArg("poweredOff"))>>
  /\ Repeats("getState", self)
  /\ Atomic(ViewAfter(self))
  /\ UNCHANGED <<impl, exists, adapterId_, listeners_, adapters_>>

\* the powerOn branch of the in-class copy
StubPowerOn(self, arg) ==
  /\ state_' = [state_ EXCEPT ![self] = "PoweredOn"]
  /\ last' = Call("getState", self, arg, "ok", "poweredOn")
  /\ emitted' = <<EmitEvent(self, "stateChange", StateArg("poweredOn"))>>
  /\ Repeats("getState", self)
  /\ Atomic(ViewBefore(self))
  /\ UNCHANGED <<impl, exists, adapterId_, advertising_, scanning_, manufacturerData_,
                 listeners_, adapters_>>

StubGetState(self, arg) ==
  IF arg.str = "error" THEN Throw("getState", self, arg, "SimulatedError")
  ELSE IF arg.str = "powerOff" /\ state_[self] # "PoweredOff" THEN StubPowerOff(self, arg)
  ELSE IF arg.str = "powerOn" /\ state_[self] # "PoweredOn" THEN StubPowerOn(self, arg)
  ELSE ReadState(self, arg)

GetState(self, str) ==
  /\ exists[self]
  /\ IF impl = "platform" THEN PlatformGetState(self, CallArg(str # "", EmptyRef, str))
                          ELSE StubGetState(self, CallArg(str # "", EmptyRef, str))

\* ------------------------------------------------------ destroy, destructor
\* a destroy that forgets to deregister
Unregister_Keep(self) == adapters_

\* an unregistration that erases the entry of the id whoever it refers to
Unregister_ById(self) ==
  [id \in Ids |-> IF id = adapterId_[self] THEN NULL ELSE adapters_[id]]

\* "if (it != adapters_.end() && it->second == this) adapters_.erase(it)"
Unregister(self) ==
  [id \in Ids |-> IF id = adapterId_[self] /\ adapters_[id] = self THEN NULL
                  ELSE adapters_[id]]

\* a destroy that announces the stop of advertising, as stopAdvertising does
Destroy_Announcing(self) ==
  /\ exists[self]
  /\ advertising_' = [advertising_ EXCEPT ![self] = FALSE]
  /\ scanning_' = [scanning_ EXCEPT ![self] = FALSE]
  /\ manufacturerData_' = [manufacturerData_ EXCEPT ![self] = EmptyRef]
  /\ listeners_' = [listeners_ EXCEPT ![self] = NoListeners]
  /\ adapters_' = IF impl = "platform" THEN Unregister(self) ELSE adapters_
  /\ UNCHANGED <<impl, exists, adapterId_, state_>>
  /\ Return("destroy", self, NoCallArg, <<EmitEvent(self, "advertisingStopped", NoArgs)>>)

\* what Destroy writes
Destroyed(self) ==
  /\ exists[self]
  /\ advertising_' = [advertising_ EXCEPT ![self] = FALSE]
  /\ scanning_' = [scanning_ EXCEPT ![self] = FALSE]
  /\ manufacturerData_' = [manufacturerData_ EXCEPT ![self] = EmptyRef]
  /\ listeners_' = [listeners_ EXCEPT ![self] = NoListeners]
  /\ adapters_' = IF impl = "platform" THEN Unregister(self) ELSE adapters_
  /\ UNCHANGED <<impl, exists, adapterId_, state_>>

Destroy(self) ==
  /\ Destroyed(self)
  /\ Return("destroy", self, NoCallArg, <<>>)

\* a destructor that leaves the registry as it is
Destruct_Registered(self) ==
  /\ exists[self]
  /\ exists' = [exists EXCEPT ![self] = FALSE]
  /\ adapters_' = adapters_
  /\ adapterId_' = [adapterId_ EXCEPT ![self] = ""]
  /\ state_' = [state_ EXCEPT ![self] = "Unknown"]
  /\ advertising_' = [advertising_ EXCEPT ![self] = FALSE]
  /\ scanning_' = [scanning_ EXCEPT ![self] = FALSE]
  /\ manufacturerData_' = [manufacturerData_ EXCEPT ![self] = EmptyRef]
  /\ listeners_' = [listeners_ EXCEPT ![self] = NoListeners]
  /\ UNCHANGED impl
  /\ Return("destruct", self, NoCallArg, <<>>)

\* BLEAdapter::~BLEAdapter: the object is gone, its address is free again
Destruct(self) ==
  /\ exists[self]
  /\ exists' = [exists EXCEPT ![self] = FALSE]
  /\ adapters_' = IF impl = "platform" THEN Unregister(self) ELSE adapters_
  /\ adapterId_' = [adapterId_ EXCEPT ![self] = ""]
  /\ state_' = [state_ EXCEPT ![self] = "Unknown"]
  /\ advertising_' = [advertising_ EXCEPT ![self] = FALSE]
  /\ scanning_' = [scanning_ EXCEPT ![self] = FALSE]
  /\ manufacturerData_' = [manufacturerData_ EXCEPT ![self] = EmptyRef]
  /\ listeners_' = [listeners_ EXCEPT ![self] = NoListeners]
  /\ UNCHANGED impl
  /\ Return("destruct", self, NoCallArg, <<>>)

\* ----------------------------------------------------------------- on, emit
\* the number of callbacks an adapter holds
NumListeners(self) ==
  LET RECURSIVE Sum(_)
      Sum(S) == IF S = {} THEN 0
                ELSE LET e == CHOOSE x \in S : TRUE
                     IN  Len(listeners_[self][e]) + Sum(S \ {e})
  IN  Sum(EventNames)

\* the string On hands a new stateChange listener
CurrentStateArg(self) ==
  StateArg(IF state_[self] = "PoweredOn" THEN "poweredOn" ELSE "poweredOff")

\* an on that answers with every stateChange listener the adapter has, as an
\* emit of stateChange would
OnInvokes_All(self, event, h) ==
  IF impl = "platform" /\ event = "stateChange"
    THEN <<[to |-> self, event |-> "stateChange", arg |-> CurrentStateArg(self),
            cbs |-> Append(listeners_[self]["stateChange"], h)]>>
    ELSE <<>>

\* the callbacks On itself calls: the platform copy calls the new listener of
\* stateChange; the in-class copy calls nothing
OnInvokes(self, event, h) ==
  IF impl = "platform" /\ event = "stateChange"
    THEN <<[to |-> self, event |-> "stateChange", arg |-> CurrentStateArg(self),
            cbs |-> <<h>>]>>
    ELSE <<>>

On(self, event, h) ==
  /\ exists[self]
  /\ NumListeners(self) < MaxListeners
  /\ listeners_' = [listeners_ EXCEPT ![self][event] = Append(@, h)]
  /\ last' = Call("on", self, OnArg(event, h), "ok", "")
  /\ emitted' = OnInvokes(self, event, h)
  /\ Repeats("on", self)
  /\ Atomic(ViewBefore(self))
  /\ UNCHANGED <<impl, exists, adapterId_, state_, advertising_, scanning_,
                 manufacturerData_, adapters_>>

\* BLEAdapter::Emit, called by the host with an event name and one argument
Emit(self, event, arg) ==
  /\ exists[self]
  /\ UNCHANGED <<impl, exists, fields, adapters_>>
  /\ Return("emit", self, CallArg(TRUE, arg.manufacturerData, event),
            <<EmitEvent(self, event, arg)>>)

\* ------------------------------------------- callbacks that call the addon
\* HandlePowerStateChange run one entry at a time, so that what a callback does
\* to the registry while the loop is halted in it can be told.  The loop and
\* the calls are those of the platform copy.

\* the values of newState the loop is run with here: the directive as GetState
\* hands it on, and the name the header documents
WalkStates == {"powerOff", "poweredOff"}

\* "for (auto &entry : adapters_)" begins
PowerWalkBegin(newState) ==
  /\ impl = "platform"
  /\ ~walk.active
  /\ walk' = [Walk(TRUE, newState, Registered, "", Entries, <<>>) EXCEPT !.calls = 0]
  /\ last' = Call("handlePowerStateChange", NULL,
                  CallArg(TRUE, EmptyRef, newState), "running", "")
  /\ emitted' = <<>>
  /\ Repeats("handlePowerStateChange", NULL)
  /\ visible' = NoView
  /\ UNCHANGED <<impl, exists, fields, adapters_>>

\* the iterator comes to an entry: the body of the loop, up to the callbacks
\* of the events it emits
PowerWalkVisit ==
  /\ walk.active
  /\ \E id \in walk.todo :
       LET adapter == adapters_[id]
           off == walk.newState = "poweredOff"
       IN  /\ state_' = [state_ EXCEPT ![adapter] = PowerState(walk.newState, @)]
           /\ advertising_' = [advertising_ EXCEPT ![adapter] = IF off THEN FALSE ELSE @]
           /\ scanning_' = [scanning_ EXCEPT ![adapter] = IF off THEN FALSE ELSE @]
           /\ manufacturerData_' =
                [manufacturerData_ EXCEPT ![adapter] = IF off THEN EmptyRef ELSE @]
           /\ emitted' = emitted \o PowerEvents(walk.newState, adapter)
           /\ walk' = [walk EXCEPT
                         !.at = id,
                         !.todo = @ \ {id},
                         !.visited = Append(@, adapter),
                         !.inCallback =
                            \E i \in 1..Len(PowerEvents(walk.newState, adapter)) :
                              PowerEvents(walk.newState, adapter)[i].cbs # <<>>]
  /\ UNCHANGED <<impl, exists, adapterId_, listeners_, adapters_, last, again, visible>>

\* a callback is running and may call the addon
InCallback ==
  /\ walk.active
  /\ walk.inCallback
  /\ walk.calls < MaxCallbacks

\* The iterator after "adapters_[adapterId_] = this" under key.  A key the
\* map holds is assigned to and nothing moves.  A new key is inserted: the
\* element lands before or behind the iterator, and an insertion that rehashes
\* invalidates the iterator, after which "++it" is undefined; what the loop
\* then still comes to is any set of entries.
AfterInsert(key) ==
  IF adapters_[key] # NULL
    THEN walk' = [walk EXCEPT !.calls = @ + 1]
    ELSE \E T \in SUBSET (Entries \cup {key}) :
           walk' = [walk EXCEPT !.calls = @ + 1, !.todo = T]

\* The iterator after Destroy of self.  "adapters_.erase(it)" of an entry the
\* iterator has still to come to takes it out of the loop; of the entry the
\* iterator is at, it invalidates the iterator and "++it" is undefined.
AfterErase(self) ==
  LET key == adapterId_[self]
  IN  IF adapters_[key] # self
        THEN walk' = [walk EXCEPT !.calls = @ + 1]
      ELSE IF key = walk.at
        THEN \E T \in SUBSET (Entries \ {key}) :
               walk' = [walk EXCEPT !.calls = @ + 1, !.todo = T]
      ELSE walk' = [walk EXCEPT !.calls = @ + 1, !.todo = @ \ {key}]

\* a callback constructs an adapter
HandlerConstructs(self, idArg) ==
  /\ InCallback
  /\ Constructed(self, idArg)
  /\ AfterInsert(PlatformAdapterId(self, idArg))
  /\ UNCHANGED <<impl, last, emitted, again, visible>>

\* a callback destroys an adapter
HandlerDestroys(self) ==
  /\ InCallback
  /\ Destroyed(self)
  /\ AfterErase(self)
  /\ UNCHANGED <<last, emitted, again, visible>>

\* the iterator is at the end: HandlePowerStateChange returns
PowerWalkEnd ==
  /\ walk.active
  /\ walk.todo = {}
  /\ walk' = [walk EXCEPT !.active = FALSE, !.at = "", !.inCallback = FALSE]
  /\ last' = [last EXCEPT !.result = "ok"]
  /\ UNCHANGED <<impl, exists, fields, adapters_, emitted, again, visible>>

\* ------------------------------------------------------------ specifications
\* what a host passes to startAdvertising: no object, options without
\* manufacturerData, options with manufacturerData
AdvertisingArgs ==
  {NoCallArg, CallArg(TRUE, EmptyRef, "")}
  \cup {CallArg(TRUE, Persistent(d), "") : d \in Payloads}

\* what a host passes to updateAdvertisingData: nothing, or a buffer
UpdateArgs ==
  {NoCallArg} \cup {CallArg(TRUE, Persistent(d), "") : d \in Payloads}

\* The calls a host makes under Spec.  on and emit are left out of it: they
\* change no flag, payload or registry entry, and the EmitEvent calls an
\* operation makes are the same whatever listeners_ holds.
Next ==
  \/ \E self \in Objs, idArg \in HostIds \cup {""} : Construct(self, idArg)
  \/ \E self \in Objs, str \in Directives : GetState(self, str)
  \/ \E self \in Objs, arg \in AdvertisingArgs : StartAdvertising(self, arg)
  \/ \E self \in Objs, arg \in UpdateArgs : UpdateAdvertisingData(self, arg)
  \/ \E self \in Objs : StopAdvertising(self)
  \/ \E self \in Objs : StartScanning(self)
  \/ \E self \in Objs : StopScanning(self)
  \/ \E self \in Objs : Destroy(self)
  \/ \E self \in Objs : Destruct(self)

Spec == Init /\ [][Next]_vars

\* The power handling on its own: getState with its directives next to
\* HandlePowerStateChange called with the state names it is documented for.
NextPower ==
  \/ \E self \in Objs, idArg \in HostIds \cup {""} : Construct(self, idArg)
  \/ \E self \in Objs, str \in Directives : GetState(self, str)
  \/ \E newState \in PowerStateNames : PowerStateChanged(newState)
  \/ \E self \in Objs, arg \in AdvertisingArgs : StartAdvertising(self, arg)
  \/ \E self \in Objs : StartScanning(self)

SpecPower == Init /\ [][NextPower]_vars

\* The subscriber table next to the calls that read or clear it.  A host
\* subscribes here to stateChange, which on answers at once, and to
\* deviceDiscovered, which it does not.
SubscribedEvents == {"stateChange", "deviceDiscovered"}

NextEvents ==
  \/ \E self \in Objs, idArg \in HostIds \cup {""} : Construct(self, idArg)
  \/ \E self \in Objs, event \in SubscribedEvents : On(self, event, "h1")
  \/ \E self \in Objs : Emit(self, "deviceDiscovered", NoArgs)
  \/ \E self \in Objs, str \in Directives : GetState(self, str)
  \/ \E self \in Objs : StartAdvertising(self, CallArg(TRUE, Persistent(<<1, 2>>), ""))
  \/ \E self \in Objs : StartScanning(self)
  \/ \E self \in Objs : Destroy(self)

SpecEvents == Init /\ [][NextEvents]_vars

\* The subscriber table on its own: a host registers either of two handlers,
\* any number of times, for an event the addon emits and for one of its own,
\* and emits these and a name nobody registered for.
ListenedEvents == {"deviceDiscovered", "custom"}
EmittedEvents == ListenedEvents \cup {"advertisingStarted"}

NextListen ==
  \/ \E self \in Objs, idArg \in HostIds \cup {""} : Construct(self, idArg)
  \/ \E self \in Objs, event \in ListenedEvents, h \in Handlers : On(self, event, h)
  \/ \E self \in Objs, event \in EmittedEvents, d \in Payloads :
       Emit(self, event, DataArg(Persistent(d)))
  \/ \E self \in Objs : Destroy(self)

SpecListen == Init /\ [][NextListen]_vars

\* The power loop with callbacks that construct and destroy adapters.  A host
\* constructs adapters and subscribes to stateChange; once the loop runs, the
\* calls come from the callbacks.
NextWalk ==
  \/ \E self \in Objs, idArg \in HostIds \cup {""} :
       ~walk.active /\ impl = "platform" /\ Construct(self, idArg)
  \/ \E self \in Objs : ~walk.active /\ On(self, "stateChange", "h1")
  \/ \E newState \in WalkStates : PowerWalkBegin(newState)
  \/ PowerWalkVisit
  \/ \E self \in Objs, idArg \in HostIds \cup {""} : HandlerConstructs(self, idArg)
  \/ \E self \in Objs : HandlerDestroys(self)
  \/ PowerWalkEnd

SpecWalk == Init /\ [][NextWalk]_vars

\* Subscribing to stateChange next to the power transitions: a host registers
\* either of two handlers for stateChange, reads the state, gives directives,
\* and HandlePowerStateChange is called with the state names it knows.
NextSubscribe ==
  \/ \E self \in Objs, idArg \in HostIds \cup {""} : Construct(self, idArg)
  \/ \E self \in Objs, h \in Handlers : On(self, "stateChange", h)
  \/ \E self \in Objs, str \in Directives : GetState(self, str)
  \/ \E newState \in PowerStateNames : PowerStateChanged(newState)

SpecSubscribe == Init /\ [][NextSubscribe]_vars

\* ------------------------------------------------------------------ helpers
\* the errors a call can fail with
Errors == {"TypeError", "InvalidState", "AlreadyActive", "SimulatedError"}

\* the step just taken is a call of op
Called(op) == last'.op = op

\* the events of a log sent to adapter o under the name event
EventsTo(log, o, event) == SelectSeq(log, LAMBDA e : e.to = o /\ e.event = event)

\* the deviceDiscovered arguments adapter o received in a log, in order
Discovered(log, o) ==
  [i \in 1..Len(EventsTo(log, o, "deviceDiscovered")) |->
     EventsTo(log, o, "deviceDiscovered")[i].arg]

\* the event names of a log, in order
Names(log) == [i \in 1..Len(log) |-> log[i].event]

\* flags and payload of every adapter are the same after the step
FlagsUnchanged == UNCHANGED <<advertising_, scanning_, manufacturerData_>>

\* ------------------------------------------------------------------- claims

\* C1: startAdvertising(options) fails with InvalidState when the adapter's
\* state is not PoweredOn and with AlreadyActive when it is already advertising;
\* on either failure the advertising flag, the scanning flag and the payload are
\* unchanged.
C1_StartAdvertisingRejected ==
  [][(Called("startAdvertising") /\ last'.arg.given) =>
       /\ state_[last'.self] # "PoweredOn" => last'.result = "InvalidState"
       /\ advertising_[last'.self] => last'.result = "AlreadyActive"
       /\ last'.result \in {"InvalidState", "AlreadyActive"} =>
            (state_[last'.self] # "PoweredOn" \/ advertising_[last'.self])
       /\ last'.result \in Errors => FlagsUnchanged /\ emitted' = <<>>]_vars

\* C1 witness: a powered-off adapter that holds a payload was refused.
C1_Witness ==
  /\ last.op = "startAdvertising" /\ last.arg.given
  /\ last.result = "InvalidState"
  /\ state_[last.self] = "PoweredOff"
  /\ ~IsEmpty(manufacturerData_[last.self])

\* C2 (as claimed): stopAdvertising on an adapter that is not advertising fails
\* with InvalidState, emits no event and leaves flags and payload unchanged.
C2_StopAdvertisingRejected ==
  [][(Called("stopAdvertising") /\ ~advertising_[last'.self]) =>
       /\ last'.result = "InvalidState"
       /\ emitted' = <<>>
       /\ FlagsUnchanged]_vars

\* C3 (as claimed): stopScanning on an adapter that is not scanning fails with
\* InvalidState and emits no scanningStopped; only on a scanning adapter does it
\* clear the scanning flag and emit exactly one scanningStopped.
C3_StopScanningRejected ==
  [][Called("stopScanning") =>
       IF scanning_[last'.self]
         THEN /\ last'.result = "ok"
              /\ ~scanning_'[last'.self]
              /\ Names(emitted') = <<"scanningStopped">>
         ELSE /\ last'.result = "InvalidState"
              /\ emitted' = <<>>
              /\ FlagsUnchanged]_vars

\* C4: startScanning fails with InvalidState when the adapter's state is not
\* PoweredOn and with AlreadyActive when it is already scanning; on either
\* failure the scanning flag is unchanged and neither scanningStarted nor
\* deviceDiscovered is emitted.
C4_StartScanningRejected ==
  [][Called("startScanning") =>
       /\ state_[last'.self] # "PoweredOn" => last'.result = "InvalidState"
       /\ scanning_[last'.self] => last'.result = "AlreadyActive"
       /\ last'.result # "ok" =>
            /\ state_[last'.self] # "PoweredOn" \/ scanning_[last'.self]
            /\ UNCHANGED scanning_
            /\ emitted' = <<>>]_vars

\* C4 witness: a scanning adapter of the platform copy was refused a second scan.
C4_Witness ==
  /\ impl = "platform"
  /\ last.op = "startScanning" /\ last.result = "AlreadyActive"
  /\ scanning_[last.self]

\* C5 (as claimed): updateAdvertisingData on an adapter that is not advertising
\* fails with InvalidState, leaves the stored payload unchanged and emits
\* nothing, neither advertisingDataUpdated nor a deviceDiscovered to a peer.
C5_UpdateRejected ==
  [][(Called("updateAdvertisingData") /\ last'.arg.given
        /\ ~advertising_[last'.self]) =>
       /\ last'.result = "InvalidState"
       /\ UNCHANGED manufacturerData_
       /\ emitted' = <<>>]_vars

\* C6: a successful startAdvertising sets the advertising flag and delivers
\* exactly one deviceDiscovered, carrying the advertiser's identity and its
\* payload, to every other registered adapter that is scanning, and none to the
\* advertiser itself or to an adapter that is not scanning.
C6_AdvertisingReachesScanners ==
  [][(Called("startAdvertising") /\ last'.result = "ok") =>
       /\ advertising_'[last'.self]
       /\ \A o \in Objs :
            Discovered(emitted', o) =
              IF o # last'.self /\ o \in Registered /\ scanning_[o]
                THEN <<Device(adapterId_[last'.self], manufacturerData_'[last'.self])>>
                ELSE <<>>]_vars

\* C6 witness: a scanning peer was told of an advertiser with a payload.
C6_Witness ==
  /\ last.op = "startAdvertising" /\ last.result = "ok"
  /\ ~IsEmpty(manufacturerData_[last.self])
  /\ \E o \in Objs \ {last.self} :
       /\ scanning_[o]
       /\ Discovered(emitted, o) =
            <<Device(adapterId_[last.self], manufacturerData_[last.self])>>

\* C7 (as claimed): a successful updateAdvertisingData of the platform copy
\* delivers a deviceDiscovered with the advertiser's identity and the new
\* payload to every other adapter that is scanning, whatever the set of live
\* adapters, and to no adapter that is not scanning.
C7_UpdateReachesEveryScanner ==
  [][(Called("updateAdvertisingData") /\ last'.result = "ok" /\ impl = "platform") =>
       \A o \in Objs :
         Discovered(emitted', o) =
           IF o # last'.self /\ exists[o] /\ scanning_[o]
             THEN <<Device(adapterId_[last'.self], last'.arg.data)>>
             ELSE <<>>]_vars

\* C7 (amended): a successful updateAdvertisingData of the platform copy
\* delivers one deviceDiscovered with the advertiser's identity and the new
\* payload to every other adapter that is in the registry and scanning, and to
\* no other adapter.
C7_UpdateReachesRegisteredScanners ==
  [][(Called("updateAdvertisingData") /\ last'.result = "ok" /\ impl = "platform") =>
       /\ manufacturerData_'[last'.self] = last'.arg.data
       /\ \A o \in Objs :
            Discovered(emitted', o) =
              IF o # last'.self /\ o \in Registered /\ scanning_[o]
                THEN <<Device(adapterId_[last'.self], last'.arg.data)>>
                ELSE <<>>]_vars

\* C7 witness: an update replaced a different payload and reached a scanning peer.
C7_Witness ==
  /\ impl = "platform"
  /\ last.op = "updateAdvertisingData" /\ last.result = "ok"
  /\ \E o \in Objs \ {last.self} :
       /\ o \in Registered /\ scanning_[o]
       /\ Discovered(emitted, o) = <<Device(adapterId_[last.self], last.arg.data)>>

\* C8 (as claimed): when A's startAdvertising succeeds and the next call is a
\* successful startScanning of another adapter B, B receives a deviceDiscovered
\* whose address is A's identity and whose payload is A's payload, also when A
\* advertised without manufacturer data.
C8_ScanAfterAdvertise ==
  [][(/\ impl = "platform"
      /\ last.op = "startAdvertising" /\ last.result = "ok"
      /\ Called("startScanning") /\ last'.result = "ok"
      /\ last'.self # last.self) =>
       \E i \in 1..Len(Discovered(emitted', last'.self)) :
         Discovered(emitted', last'.self)[i] =
           Device(adapterId_[last.self], manufacturerData_[last.self])]_vars

\* C8 (amended): when A's startAdvertising succeeds, A holds a payload and is in
\* the registry, and the next call is a successful startScanning of another
\* adapter B, B receives exactly one deviceDiscovered whose address is A's
\* identity, and its payload is A's payload.
C8_ScanAfterAdvertiseWithPayload ==
  [][(/\ impl = "platform"
      /\ last.op = "startAdvertising" /\ last.result = "ok"
      /\ ~IsEmpty(manufacturerData_[last.self])
      /\ last.self \in Registered
      /\ Called("startScanning") /\ last'.result = "ok"
      /\ last'.self # last.self) =>
       /\ emitted'[1] = EmitEvent(last'.self, "scanningStarted", NoArgs)
       /\ Len(SelectSeq(Discovered(emitted', last'.self),
                        LAMBDA d : d.address = adapterId_[last.self])) = 1
       /\ \E i \in 1..Len(Discovered(emitted', last'.self)) :
            Discovered(emitted', last'.self)[i] =
              Device(adapterId_[last.self], manufacturerData_[last.self])]_vars

\* C8 witness: a scan of the platform copy discovered an advertising peer
\* under the peer's identity and payload.
C8_Witness ==
  /\ impl = "platform"
  /\ last.op = "startScanning" /\ last.result = "ok"
  /\ \E o \in Objs \ {last.self} :
       /\ advertising_[o] /\ ~IsEmpty(manufacturerData_[o])
       /\ adapterId_[o] # adapterId_[last.self]
       /\ Discovered(emitted, last.self) = <<Device(adapterId_[o], manufacturerData_[o])>>

\* the adapters a scan of self is to discover: every other adapter of the
\* registry that is advertising with a payload
PeersToDiscover(self) ==
  {o \in Objs \ {self} :
     o \in Registered /\ advertising_[o] /\ ~IsEmpty(manufacturerData_[o])}

\* C9: a successful startScanning of the platform copy delivers to the caller
\* exactly one deviceDiscovered per other registered adapter that is advertising
\* with a payload; when there is none it delivers exactly one deviceDiscovered
\* with the placeholder identity, and when there is one it delivers no
\* placeholder.
C9_ScanDiscoveries ==
  [][(Called("startScanning") /\ last'.result = "ok" /\ impl = "platform") =>
       LET self == last'.self
           got == Discovered(emitted', self)
       IN  /\ scanning_'[self]
           /\ \A o \in Objs \ {self} : Discovered(emitted', o) = <<>>
           /\ \A o \in PeersToDiscover(self) :
                Len(SelectSeq(got, LAMBDA d :
                      d = Device(adapterId_[o], manufacturerData_[o]))) = 1
           /\ Len(got) = IF PeersToDiscover(self) = {} THEN 1
                         ELSE Cardinality(PeersToDiscover(self))
           /\ PeersToDiscover(self) = {} => got = <<SimulatedDevice(self)>>
           /\ PeersToDiscover(self) # {} =>
                \A i \in 1..Len(got) : got[i].address # SimulatedId(self)]_vars

\* C9 witness: a scan found only a peer that advertises without a payload and
\* reported the placeholder.
C9_Witness ==
  /\ impl = "platform"
  /\ last.op = "startScanning" /\ last.result = "ok"
  /\ \E o \in Objs \ {last.self} : o \in Registered /\ advertising_[o]
  /\ Discovered(emitted, last.self) = <<SimulatedDevice(last.self)>>
  /\ SimulatedId(last.self) = adapterId_[last.self] \o "-sim"

\* C10: scenario.  A (PoweredOn, in the registry) calls startScanning with no
\* advertising peer and receives exactly one deviceDiscovered, with the
\* placeholder identity; B then calls startAdvertising with a payload and A
\* receives exactly one further deviceDiscovered, with B's identity and that
\* payload.
C10_ScanThenAdvertise ==
  [][(/\ impl = "platform"
      /\ last.op = "startScanning" /\ last.result = "ok"
      /\ last.self \in Registered
      /\ PeersToDiscover(last.self) = {}
      /\ Called("startAdvertising") /\ last'.result = "ok"
      /\ last'.self # last.self
      /\ ~IsEmpty(last'.arg.data)) =>
       /\ Discovered(emitted, last.self) = <<SimulatedDevice(last.self)>>
       /\ Discovered(emitted', last.self) =
            <<Device(adapterId_[last'.self], last'.arg.data)>>]_vars

\* C10 witness: B advertised the payload of the scenario and A, which is
\* scanning, in the registry and not advertising itself, received B's identity
\* and that payload.
C10_Witness ==
  /\ impl = "platform"
  /\ last.op = "startAdvertising" /\ last.result = "ok"
  /\ last.arg.data = Persistent(<<1, 2>>)
  /\ \E a \in Objs \ {last.self} :
       /\ a \in Registered /\ scanning_[a] /\ ~advertising_[a]
       /\ state_[a] = "PoweredOn"
       /\ adapterId_[a] # adapterId_[last.self]
       /\ Discovered(emitted, a) = <<Device(adapterId_[last.self], Persistent(<<1, 2>>))>>

\* C11 (as claimed): getState with the power-off directive on a PoweredOn
\* adapter leaves the adapter PoweredOff, neither advertising nor scanning and
\* without payload, and returns the PoweredOff tag.
C11_PowerOffDirective ==
  [][(/\ Called("getState") /\ last'.arg.str = "powerOff"
      /\ state_[last'.self] = "PoweredOn") =>
       /\ last'.result = "ok"
       /\ last'.ret = "poweredOff"
       /\ state_'[last'.self] = "PoweredOff"
       /\ ~advertising_'[last'.self]
       /\ ~scanning_'[last'.self]
       /\ IsEmpty(manufacturerData_'[last'.self])]_vars

\* the names of the events a log sends to adapter o, in order
NamesTo(log, o) == Names(SelectSeq(log, LAMBDA e : e.to = o))

\* the step just taken is a power-off transition: HandlePowerStateChange called
\* for poweredOff, or a successful getState with the power-off directive
PowerOffStep ==
  \/ Called("handlePowerStateChange") /\ last'.arg.str = "poweredOff"
  \/ Called("getState") /\ last'.arg.str = "powerOff" /\ last'.result = "ok"

C13_SameStateDirective ==
  [][(/\ Called("getState")
      /\ \/ last'.arg.str = "powerOn" /\ state_[last'.self] = "PoweredOn"
         \/ last'.arg.str = "powerOff" /\ state_[last'.self] = "PoweredOff") =>
       /\ last'.result = "ok"
       /\ UNCHANGED <<state_, advertising_, scanning_, manufacturerData_>>
       /\ emitted' = <<>>]_vars

\* C14 (as claimed): once a power-off directive has been applied to an adapter,
\* startAdvertising and startScanning on it fail with InvalidState until a
\* power-on directive is applied; the power-on directive emits only stateChange,
\* changes no flag and leaves the adapter PoweredOn.  Stated for the call that
\* follows the directive at once.
C14_PowerGating ==
  [][/\ (/\ last.op = "getState" /\ last.arg.str = "powerOff" /\ last.result = "ok"
         /\ last'.self = last.self
         /\ \/ Called("startAdvertising") /\ last'.arg.given
            \/ Called("startScanning")) =>
          last'.result = "InvalidState"
     /\ (/\ Called("getState") /\ last'.arg.str = "powerOn"
         /\ state_[last'.self] = "PoweredOff") =>
          /\ state_'[last'.self] = "PoweredOn"
          /\ \A i \in 1..Len(emitted') : emitted'[i].event = "stateChange"
          /\ UNCHANGED <<advertising_, scanning_>>]_vars

\* C15 (as claimed): a power directive given to getState on one adapter is
\* applied to every adapter of the registry: after power-off each of them is
\* PoweredOff, neither advertising nor scanning and without payload; after
\* power-on each of them is PoweredOn.
C15_PowerBroadcast ==
  [][(Called("getState") /\ last'.result = "ok") =>
       /\ last'.arg.str = "powerOff" =>
            \A o \in Registered :
              /\ state_'[o] = "PoweredOff"
              /\ ~advertising_'[o] /\ ~scanning_'[o]
              /\ IsEmpty(manufacturerData_'[o])
       /\ last'.arg.str = "powerOn" =>
            \A o \in Registered : state_'[o] = "PoweredOn"]_vars

\* C16: getState given the error sentinel fails with SimulatedError, returns no
\* state, changes no adapter's state, flags, payload or subscriptions, leaves
\* the registry as it is and emits no event.
C16_ErrorSentinel ==
  [][(Called("getState") /\ last'.arg.str = "error") =>
       /\ last'.result = "SimulatedError"
       /\ last'.ret = ""
       /\ UNCHANGED <<fields, adapters_>>
       /\ emitted' = <<>>]_vars

\* C16 witness: the sentinel was refused on an advertising adapter of the
\* platform copy that has a stateChange subscriber.
C16_Witness ==
  /\ impl = "platform"
  /\ last.op = "getState" /\ last.arg.str = "error"
  /\ last.result = "SimulatedError"
  /\ advertising_[last.self]
  /\ listeners_[last.self]["stateChange"] # <<>>

\* C17 (as claimed): on("stateChange", h) calls, before it returns, exactly one
\* handler once, with the adapter's current power state, and changes nothing
\* but the subscriber table, to which it appends h.
C17_OnStateChange ==
  [][(Called("on") /\ last'.arg.str = "stateChange") =>
       LET self == last'.self
       IN  /\ last'.result = "ok"
           /\ Len(emitted') = 1
           /\ emitted'[1].to = self
           /\ emitted'[1].event = "stateChange"
           /\ emitted'[1].cbs = <<last'.arg.handler>>
           /\ emitted'[1].arg.state = StateTag(state_[self])
           /\ listeners_' = [listeners_ EXCEPT ![self]["stateChange"] =
                               Append(@, last'.arg.handler)]
           /\ UNCHANGED <<exists, adapterId_, state_, advertising_, scanning_,
                          manufacturerData_, adapters_>>]_vars

\* C18: a destroy that directly follows a destroy of the same adapter succeeds,
\* emits no event and changes nothing: the adapter and the registry stay as the
\* first destroy left them.
C18_DestroyIdempotent ==
  [][(last.op = "destroy" /\ Called("destroy") /\ last'.self = last.self) =>
       /\ last'.result = "ok"
       /\ emitted' = <<>>
       /\ UNCHANGED <<exists, fields, adapters_>>]_vars

\* C18 witness: an adapter of the platform copy was destroyed twice in a row
\* while a newer adapter holds the registry entry of its id.
C18_Witness ==
  /\ impl = "platform"
  /\ last.op = "destroy" /\ again
  /\ last.self \notin Registered
  /\ adapters_[adapterId_[last.self]] \notin {NULL, last.self}

\* the calls C19 is about
Commands == {"getState", "startAdvertising", "updateAdvertisingData",
             "stopAdvertising", "startScanning", "stopScanning"}

\* C19 (as claimed): getState and every command on a destroyed adapter do not
\* set its flags or payload again and deliver no event to any peer.  Stated for
\* the call that follows the destroy at once.
C19_DeadAfterDestroy ==
  [][(last.op = "destroy" /\ last'.op \in Commands /\ last'.self = last.self) =>
       /\ ~advertising_'[last'.self]
       /\ ~scanning_'[last'.self]
       /\ IsEmpty(manufacturerData_'[last'.self])
       /\ \A i \in 1..Len(emitted') : emitted'[i].to = last'.self]_vars

\* C20: destroy leaves the adapter not advertising, not scanning, without
\* payload and without subscribers, leaves no registry entry that refers to it,
\* and emits no event, in particular no advertisingStopped or scanningStopped.
C20_DestroyClears ==
  [][Called("destroy") =>
       LET self == last'.self
       IN  /\ last'.result = "ok"
           /\ ~advertising_'[self]
           /\ ~scanning_'[self]
           /\ IsEmpty(manufacturerData_'[self])
           /\ listeners_'[self] = NoListeners
           /\ \A id \in Ids : adapters_'[id] # self
           /\ \A id \in Ids : adapters_[id] # self => adapters_'[id] = adapters_[id]
           /\ emitted' = <<>>]_vars

\* C20 witness: a first destroy on the platform copy removed the adapter's own
\* registry entry while a scanning peer kept its entry and its flag.
C20_Witness ==
  /\ impl = "platform"
  /\ last.op = "destroy" /\ ~again
  /\ adapters_[adapterId_[last.self]] = NULL
  /\ \E o \in Registered : o # last.self /\ scanning_[o]

\* C21: emit(event, args) succeeds, changes nothing and calls, with args,
\* exactly the handlers registered for that event on the adapter, in the order
\* of their registration and once per registration; it calls no handler of
\* another event and none at all when the event has no registration.  on
\* appends the handler to the registrations of its event and leaves those of
\* every other event and adapter as they are.
C21_EmitDelivers ==
  [][/\ Called("on") =>
          listeners_' = [listeners_ EXCEPT ![last'.self][last'.arg.str] =
                            Append(@, last'.arg.handler)]
     /\ Called("emit") =>
          /\ last'.result = "ok"
          /\ Len(emitted') = 1
          /\ emitted'[1].to = last'.self
          /\ emitted'[1].event = last'.arg.str
          /\ emitted'[1].arg.manufacturerData = last'.arg.data
          /\ emitted'[1].cbs = listeners_[last'.self][last'.arg.str]
          /\ UNCHANGED <<exists, fields, adapters_>>]_vars

\* C21 witness: an emit called the same handler twice, once for each of its two
\* registrations for the event.
C21_Witness ==
  /\ last.op = "emit" /\ last.result = "ok"
  /\ Len(emitted) = 1
  /\ emitted[1].cbs = <<"h1", "h1">>
  /\ listeners_[last.self][last.arg.str] = <<"h1", "h1">>

\* C22: destroy and the destructor remove the registry entry of the adapter's
\* id when that entry refers to this adapter, and change no entry that refers
\* to another adapter: the entry a newer adapter holds under the same id stays.
C22_UnregisterOwnEntry ==
  [][(Called("destroy") \/ Called("destruct")) =>
       LET self == last'.self
       IN  /\ (adapterId_[self] \in Ids /\ adapters_[adapterId_[self]] = self) =>
                adapters_'[adapterId_[self]] = NULL
           /\ \A id \in Ids : adapters_[id] # self => adapters_'[id] = adapters_[id]]_vars

\* C22 witness: an older adapter was destroyed, for the first time, while a
\* newer adapter constructed under the same id holds the entry, which is still
\* there.
C22_Witness ==
  /\ impl = "platform"
  /\ last.op = "destroy" /\ ~again
  /\ \E newer \in Objs \ {last.self} :
       /\ exists[newer]
       /\ adapterId_[newer] = adapterId_[last.self]
       /\ adapters_[adapterId_[last.self]] = newer

\* C23: in every reachable state every registry entry refers to an adapter
\* object that exists: no entry is left behind for an adapter whose destructor
\* has run, whatever ids the constructions before it used.
C23_NoDanglingEntry ==
  \A id \in Ids : adapters_[id] # NULL => exists[adapters_[id]]

\* C23 witness: the destructor of one adapter has run and the registry still
\* holds an entry, under a host-given id, which refers to the adapter that is
\* left.
C23_Witness ==
  /\ impl = "platform"
  /\ last.op = "destruct" /\ ~exists[last.self]
  /\ \E id \in HostIds :
       /\ adapters_[id] \notin {NULL, last.self}
       /\ exists[adapters_[id]]
       /\ adapterId_[adapters_[id]] = id

\* the errors of a command that was validated and refused
Refusals == {"InvalidState", "AlreadyActive", "SimulatedError"}

\* C24: a command that fails with InvalidState, AlreadyActive or SimulatedError
\* has changed no adapter's state, flags, payload or subscriber table and no
\* registry entry, and has sent no event to any adapter.
C24_FailedCommandChangesNothing ==
  [][(last'.op \in Commands /\ last'.result \in Refusals) =>
       /\ UNCHANGED <<exists, fields, adapters_>>
       /\ emitted' = <<>>]_vars

\* C24 witness: an advertising adapter was refused a second startAdvertising
\* that carried another payload than the one it holds, while a registered peer
\* was scanning.
C24_Witness ==
  /\ impl = "platform"
  /\ last.op = "startAdvertising" /\ last.result = "AlreadyActive"
  /\ advertising_[last.self]
  /\ ~IsEmpty(last.arg.data)
  /\ ~IsEmpty(manufacturerData_[last.self])
  /\ manufacturerData_[last.self] # last.arg.data
  /\ \E o \in Registered : o # last.self /\ scanning_[o]

\* C25: after a successful startAdvertising whose options carry no manufacturer
\* data the adapter holds no payload, whatever it advertised before, and the
\* device the call announces to scanning peers carries none; a scan reports for
\* a peer the payload that peer holds, so none is reported for this adapter
\* afterwards.
C25_NoStalePayload ==
  [][(/\ Called("startAdvertising") /\ last'.result = "ok"
      /\ last'.arg.given /\ IsEmpty(last'.arg.data)) =>
       /\ IsEmpty(manufacturerData_'[last'.self])
       /\ \A i \in 1..Len(emitted') :
            emitted'[i].event = "deviceDiscovered" =>
              IsEmpty(emitted'[i].arg.manufacturerData)]_vars

\* C25 witness: an adapter of the platform copy started advertising with
\* options that carry no manufacturer data; it holds no payload and the
\* scanning peer was told of a device without one.
C25_Witness ==
  /\ impl = "platform"
  /\ last.op = "startAdvertising" /\ last.result = "ok"
  /\ last.arg.given /\ IsEmpty(last.arg.data)
  /\ advertising_[last.self]
  /\ IsEmpty(manufacturerData_[last.self])
  /\ \E o \in Registered \ {last.self} :
       Discovered(emitted, o) = <<Device(adapterId_[last.self], EmptyRef)>>

\* C26: startAdvertising, updateAdvertisingData and stopAdvertising change no
\* adapter's scanning flag; startScanning and stopScanning change no adapter's
\* advertising flag or payload.  (That one adapter can advertise and scan at
\* once is what the witness shows.)
C26_IndependentFlags ==
  [][/\ last'.op \in {"startAdvertising", "updateAdvertisingData", "stopAdvertising"} =>
          UNCHANGED scanning_
     /\ last'.op \in {"startScanning", "stopScanning"} =>
          UNCHANGED <<advertising_, manufacturerData_>>]_vars

\* C26 witness: an adapter that advertises a payload started scanning as well
\* and still advertises that payload.
C26_Witness ==
  /\ last.op = "startScanning" /\ last.result = "ok"
  /\ scanning_[last.self]
  /\ advertising_[last.self]
  /\ manufacturerData_[last.self] = Persistent(<<3>>)

\* the event a successful command emits to its own adapter
LocalEvent(op) ==
  CASE op = "startAdvertising" -> "advertisingStarted"
    [] op = "updateAdvertisingData" -> "advertisingDataUpdated"
    [] op = "startScanning" -> "scanningStarted"

\* C27 (as claimed): a successful startAdvertising, updateAdvertisingData or
\* startScanning emits its local event to its own adapter first and every
\* deviceDiscovered after it, and when the first of these events is delivered
\* the adapter already has the flags and the payload the command leaves it with.
C27_LocalEventFirst ==
  [][(/\ last'.op \in {"startAdvertising", "updateAdvertisingData", "startScanning"}
      /\ last'.result = "ok") =>
       /\ Len(emitted') >= 1
       /\ emitted'[1].to = last'.self
       /\ emitted'[1].event = LocalEvent(last'.op)
       /\ \A i \in 2..Len(emitted') : emitted'[i].event = "deviceDiscovered"
       /\ visible' = View(advertising_'[last'.self], scanning_'[last'.self],
                          manufacturerData_'[last'.self])]_vars

\* the number of times the loop came to adapter o
Visits(o) == Len(SelectSeq(walk.visited, LAMBDA v : v = o))

\* C28 (as claimed): when the loop of a power transition has run to its end,
\* it has come exactly once to every adapter the registry held when it began,
\* whatever the callbacks it called constructed or destroyed meanwhile.
C28_VisitedExactlyOnce ==
  (~walk.active /\ last.op = "handlePowerStateChange" /\ last.result = "ok") =>
    \A o \in walk.began : Visits(o) = 1

\* the commands both copies validate
Validated == {"startAdvertising", "updateAdvertisingData", "stopAdvertising",
              "startScanning", "stopScanning"}

\* what the checks of the platform copy make of a command in the present state
PlatformCheck(op, self, arg) ==
  CASE op = "startAdvertising" -> PlatformStartAdvertisingCheck(self, arg)
    [] op = "updateAdvertisingData" -> PlatformUpdateAdvertisingDataCheck(self, arg)
    [] op = "stopAdvertising" -> PlatformStopAdvertisingCheck(self)
    [] op = "startScanning" -> StartScanningCheck(self)
    [] op = "stopScanning" -> PlatformStopScanningCheck(self)

\* what the checks of the in-class copy make of it
StubCheck(op, self, arg) ==
  CASE op = "startAdvertising" -> StubStartAdvertisingCheck(self, arg)
    [] op = "updateAdvertisingData" -> StubUpdateAdvertisingDataCheck(self, arg)
    [] op = "stopAdvertising" -> StubStopAdvertisingCheck(self)
    [] op = "startScanning" -> StartScanningCheck(self)
    [] op = "stopScanning" -> StubStopScanningCheck(self)

\* self is the only adapter there is
Lone(self) == \A o \in Objs : exists[o] <=> o = self

\* C29 (as claimed): the two copies answer every sequence of calls on a lone
\* adapter alike.  Stated for the results, and for the first command on a
\* newly constructed adapter, which is in the same state in both copies: the
\* command, called with its argument, succeeds or fails in the copy that runs
\* as the checks of either copy say.
C29_CopiesAgree ==
  [][(/\ last.op = "construct"
      /\ last'.op \in Validated
      /\ last'.self = last.self
      /\ Lone(last.self)
      /\ last'.op \in {"startAdvertising", "updateAdvertisingData"} => last'.arg.given) =>
       /\ last'.result = PlatformCheck(last'.op, last'.self, last'.arg)
       /\ last'.result = StubCheck(last'.op, last'.self, last'.arg)]_vars

\* C30: in every reachable state an adapter that is advertising or scanning is
\* PoweredOn.
C30_ActiveIsPoweredOn ==
  \A o \in Objs : (advertising_[o] \/ scanning_[o]) => state_[o] = "PoweredOn"

\* C30 witness: a power-off transition has run; it left one adapter PoweredOff
\* with both flags false, while an adapter the registry no longer refers to
\* still advertises and scans, and is PoweredOn.
C30_Witness ==
  /\ last.op = "handlePowerStateChange" /\ last.arg.str = "poweredOff"
  /\ \E o \in Objs : /\ exists[o] /\ state_[o] = "PoweredOff"
                     /\ ~advertising_[o] /\ ~scanning_[o]
  /\ \E o \in Objs : /\ exists[o] /\ state_[o] = "PoweredOn"
                     /\ advertising_[o] /\ scanning_[o]

\* C31 (as claimed): in every reachable state an adapter that holds a
\* manufacturer payload is advertising.
C31_PayloadImpliesAdvertising ==
  \A o \in Objs : ~IsEmpty(manufacturerData_[o]) => advertising_[o]

\* the addresses of devices that stand for no adapter: the simulated device of
\* a scan that found nothing and the fixed device of the in-class copy
Placeholders == {id \o "-sim" : id \in Ids \cup {""}} \cup {"AA:BB:CC:DD:EE:FF"}

\* the deviceDiscovered arguments of the step just taken
DiscoveredNow == {emitted'[i].arg : i \in {j \in 1..Len(emitted') :
                                            emitted'[j].event = "deviceDiscovered"}}

\* C32 (as claimed): every deviceDiscovered a command delivers carries a
\* placeholder identity or the identity of an adapter that the registry then
\* holds under that identity and that is advertising.
C32_DiscoveredIsRegistered ==
  [][last'.op \in Commands =>
       \A device \in DiscoveredNow :
         \/ device.address \in Placeholders
         \/ /\ device.address \in Ids
            /\ adapters_'[device.address] # NULL
            /\ adapterId_'[adapters_'[device.address]] = device.address
            /\ advertising_'[adapters_'[device.address]]]_vars

\* C33 (as claimed): no command delivers to an adapter a deviceDiscovered whose
\* address is that adapter's own identity.
C33_NeverOwnAddress ==
  [][last'.op \in Commands =>
       \A i \in 1..Len(emitted') :
         emitted'[i].event = "deviceDiscovered" =>
           emitted'[i].arg.address # adapterId_[emitted'[i].to]]_vars

\* C34: in every reachable state every registry entry maps its key to an
\* adapter whose adapterId_ is that key, so that no adapter is held under two
\* keys; and when a constructor has returned, GetAdapter of the new adapter's
\* id returns the new adapter, whoever held that id before.
C34_RegistryKeysAreIds ==
  /\ \A id \in Entries : adapterId_[adapters_[id]] = id
  /\ \A id1, id2 \in Entries : adapters_[id1] = adapters_[id2] => id1 = id2
  /\ (impl = "platform" /\ last.op = "construct") =>
       GetAdapter(adapterId_[last.self]) = last.self

\* C34 witness: a constructor was given an id that an older adapter, which
\* still exists, had been given before; the registry now returns the new
\* adapter for it.
C34_Witness ==
  /\ impl = "platform"
  /\ last.op = "construct" /\ last.arg.str \in HostIds
  /\ GetAdapter(last.arg.str) = last.self
  /\ \E older \in Objs \ {last.self} :
       exists[older] /\ adapterId_[older] = last.arg.str

\* C35: what on("stateChange", h) delivers at once, it delivers to the adapter
\* on was called on, as stateChange, by calling h alone, once, and none of the
\* handlers registered before it; the value is the one getState without
\* directive returns in that state.
C35_OnInvokesNewHandlerOnly ==
  [][(Called("on") /\ last'.arg.str = "stateChange") =>
       /\ Len(emitted') <= 1
       /\ \A i \in 1..Len(emitted') :
            /\ emitted'[i].to = last'.self
            /\ emitted'[i].event = "stateChange"
            /\ emitted'[i].cbs = <<last'.arg.handler>>
            /\ emitted'[i].arg.state = StateTag(state_[last'.self])]_vars

\* C35 witness: h1 was registered for stateChange on a PoweredOff adapter of
\* the platform copy that already had h2 registered; h1 alone was called, with
\* poweredOff.
C35_Witness ==
  /\ impl = "platform"
  /\ last.op = "on" /\ last.arg.str = "stateChange" /\ last.arg.handler = "h1"
  /\ listeners_[last.self]["stateChange"] = <<"h2", "h1">>
  /\ state_[last.self] = "PoweredOff"
  /\ Len(emitted) = 1
  /\ emitted[1].cbs = <<"h1">>
  /\ emitted[1].arg.state = "poweredOff"

====
